---- MODULE Spec2Model ----
(***************************************************************************)
(* Signaling-mediated peer streaming of the proctoring subsystem.          *)
(*                                                                         *)
(* Viewer side : web-frontend/src/admin/hooks/useProctoringStreams.ts      *)
(* Publisher   : the useAICameraMonitor hook (unnamed/part_002)            *)
(* Dashboard   : the useProctoring hook (unnamed/part_003)                 *)
(*                                                                         *)
(* The viewer hook is a React hook: its state lives in one useState store  *)
(* (streamStates), in refs (peersRef, remoteSessionMap, socketsRef,        *)
(* sessionsRef, streamStatesRef, requestedSessionsRef) and in the          *)
(* RTCPeerConnection objects it creates.  Every handler runs to its next   *)
(* await in one step of the event loop; one action models one such step.   *)
(***************************************************************************)
EXTENDS Integers, Sequences, FiniteSets, TLC

----------------------------------------------------------------------------
(* Bounds of the model *)

\* A run is of one of seven kinds (profile), fixed at the first render:
\*   "link"  the dashboard lists session s1 only and never changes the
\*           list; the viewer creates up to MaxPc transports;
\*   "list"  the dashboard lists s1 only and changes the list up to
\*           MaxListChanges times; the viewer creates one transport;
\*   "lag"   as "link" with one transport; how many store updates may
\*           wait for their commit when an event or a call is handled is
\*           set by MaxStale and MaxStaleCalls;
\*   "two"   the dashboard lists s1 and s2, two participants of one exam, as
\*           active and never changes the list; the viewer creates up to
\*           MaxPcTwo transports;
\*   "exams" the dashboard lists s1 and s2, one participant in two exams, as
\*           active and never changes the list; the viewer creates one
\*           transport;
\*   "shared" as "two", with every offer delivered by the one sender socket
\*           r1, up to MaxPcShared transports and up to MaxListChanges
\*           changes of the list; explored by SpecShared only;
\*   "stale" as "link", with up to MaxListChanges changes of the list and
\*           with events handled while fewer than MaxStaleEvents store
\*           updates are queued; explored by SpecStale only.
\* Outside "lag" an event is handled once React has committed every queued
\* store update; the dashboard calls the API with at most one update queued
\* (none in "two", "exams" and "shared").

\* transports (RTCPeerConnection objects) the viewer creates in "link"
MaxPc == 2
\* transports the viewer creates in "two"
MaxPcTwo == 1
\* transports the viewer creates in "shared"
MaxPcShared == 2
\* changes of the session list in "list"
MaxListChanges == 1
\* webrtc_offer_request events the publisher answers in one run
MaxOfferRequests == 2
\* in "lag": an event of a socket or of a transport is handled while fewer
\* than MaxStale store updates are queued (not yet committed by React)
MaxStale == 1
\* in "stale": an event is handled while fewer than MaxStaleEvents store
\* updates are queued
MaxStaleEvents == 2
\* in "lag": the dashboard calls the API while fewer than MaxStaleCalls
\* store updates are queued
MaxStaleCalls == 2
\* calls of setRemoteDescription of one publisher transport not yet settled
MaxPendingSets == 2
\* calls of startMonitoring suspended at cameraManager.start()
MaxMonitorCalls == 1
\* proctoring_alert events the dashboard receives for sessions of its list
\* in "list"
MaxAlerts == 3
\* proctoring_alert events the dashboard receives in "risk"
MaxRiskAlerts == 5

----------------------------------------------------------------------------
(* The universe the inputs are drawn from *)

Sessions == {"s1", "s2"}
SessionOrder == <<"s1", "s2">>
Exams == {"E1", "E2"}
Users == {"U1", "U2"}
Sockets == {"r1", "r2"}
\* proctorSocketId of the viewers that ask the publisher for its stream
Proctors == {"p1", "p2"}
\* studentIdToView of a webrtc_offer_request: absent, this student, another
StudentFilters == {"none", "me", "other"}

\* ProctoringSession.status as far as the hook looks at it; "absent" is a
\* session that is not in the list
ListStatus == {"absent", "active", "terminated"}

\* options.autoRequest: the dashboard calls the hook without options, which
\* leaves the default
autoRequest == TRUE

\* error messages carried by StreamState.error
MsgNone == "none"
MsgReconnectFailed == "reconnect_failed: cannot reconnect to proctoring server"
MsgConnLost == "disconnect: lost connection to proctoring server"
MsgUserLeft == "user_left: candidate disconnected"
MsgFailed == "failed: cannot establish video connection"
MsgInterrupted == "disconnected: video connection interrupted"
MsgNegotiation == "error.message of the rejected negotiation step"

NoSocket == "none"
NoSession == "none"

\* streamStates[id] === undefined
AbsentState ==
    [status |-> "absent", stream |-> 0, lastUpdated |-> 0,
     error |-> MsgNone, remoteSocketId |-> NoSocket]

\* peersRef.current[id] === undefined
NoPeer == [pc |-> 0, remoteSocketId |-> NoSocket, examId |-> "none"]

Pending == {"setRemoteDescription", "createAnswer", "setLocalDescription"}

----------------------------------------------------------------------------
VARIABLES
    \* ---- viewer hook ----
    profile,            \* the kind of run, fixed at the start
    sessionData,        \* examId and userId of every session
    mounted,            \* the mount effects have run
    allSessions,        \* the allSessions argument of the latest render
    sessionsRef,        \* sessionsRef.current
    streamStates,       \* the useState store, all queued updaters applied
    streamStatesRef,    \* streamStatesRef.current, the fields read through it
    peersRef,           \* peersRef.current
    remoteSessionMap,   \* remoteSessionMap.current
    socketsRef,         \* socketsRef.current: state of the socket per exam
    ioCalls,            \* history: calls of io(serverUrl, ...) per examId
    requestedSessionsRef,
    pcs,                \* the RTCPeerConnection objects created so far
    sent,               \* the messages emitted by the step just taken
    listChanges,        \* number of session-list changes so far
    staleUpdates,       \* setStreamStates calls since the last commit
    lastEvent           \* history: the call or event handled by the last step

viewerVars ==
    <<profile, sessionData, mounted, allSessions, sessionsRef, streamStates,
      streamStatesRef, peersRef, remoteSessionMap, socketsRef, ioCalls,
      requestedSessionsRef, pcs, sent, listChanges, staleUpdates,
      lastEvent>>

VARIABLES
    \* ---- publisher hook (useAICameraMonitor) ----
    pubProfile,         \* which part of the publisher's behaviour the run explores
    pubConnected,       \* socketRef.current.connected
    peerConnectionsRef, \* peerConnectionsRef.current
    pubPcs,             \* the RTCPeerConnection objects of the publisher
    offerTasks,         \* the calls of respondToProctorOfferRequest
    cameraStream,       \* cameraManager.currentStream is not null
    isActiveRef,        \* isActiveRef.current
    cameraUsageRef,     \* cameraUsageRef.current
    monitorCalls,       \* calls of startMonitoring awaiting the camera
    pubSent,            \* the messages emitted by the step just taken
    pubEvent            \* history: the event handled by the last step

pubVars ==
    <<pubProfile, pubConnected, peerConnectionsRef, pubPcs, offerTasks,
      cameraStream, isActiveRef, cameraUsageRef, monitorCalls, pubSent, pubEvent>>

VARIABLES
    \* ---- dashboard hook (useProctoring) ----
    dashProfile,        \* which part of the dashboard's behaviour the run explores
    sessions,           \* the sessions store, all queued updaters applied
    alerts,             \* proctoring_alert events delivered for listed sessions
    dashEvent           \* history: the event or call handled by the last step

dashVars == <<dashProfile, sessions, alerts, dashEvent>>

vars == <<viewerVars, pubVars, dashVars>>

Profiles == {"link", "list", "lag", "two", "exams", "shared", "stale"}
TwoSessions == profile \in {"two", "exams", "shared"}

PcBudget ==
    IF profile \in {"link", "stale"} THEN MaxPc
    ELSE IF profile = "two" THEN MaxPcTwo
    ELSE IF profile = "shared" THEN MaxPcShared
    ELSE 1

ListBudget ==
    IF profile \in {"list", "stale", "shared"} THEN MaxListChanges ELSE 0

\* an event is handled while fewer than StaleBudget store updates are queued
StaleBudget ==
    IF profile = "lag" THEN MaxStale
    ELSE IF profile = "stale" THEN MaxStaleEvents
    ELSE 1

\* the API is called while fewer than CallBudget store updates are queued
CallBudget ==
    IF profile = "lag" THEN MaxStaleCalls
    ELSE IF TwoSessions THEN 1
    ELSE 2

\* ProctoringSession.examId / ProctoringSession.userId
ExamOf(s) == sessionData[s].examId
UserOf(s) == sessionData[s].userId

----------------------------------------------------------------------------
\* What the hook reads through streamStatesRef.current[id]: whether the entry
\* exists, its status, and its stream handle (lines 107, 286-287, 373-379,
\* 414-415, 421-422); no other field of the mirror is ever read.
Mirror(ss) ==
    [s \in Sessions |-> [status |-> ss[s].status, stream |-> ss[s].stream]]

(* The refs and the store as one value, so that a handler that calls       *)
(* several helpers in sequence can be written as their composition.        *)

VS ==
    [ss |-> streamStates, ssRef |-> streamStatesRef,
     sessions |-> sessionsRef, peers |-> peersRef,
     rmap |-> remoteSessionMap, socks |-> socketsRef, io |-> ioCalls,
     requested |-> requestedSessionsRef, pcs |-> pcs, sent |-> <<>>,
     queued |-> staleUpdates]

\* A transport that is closed and whose handler has run to its end is
\* garbage: no observer is attached to it and no continuation holds it.
DeadPc ==
    [sid |-> NoSession, sender |-> NoSocket, exam |-> "none",
     closed |-> TRUE, observed |-> FALSE, stage |-> "done"]

\* State-space reduction that keeps every observable behaviour: garbage is
\* replaced by DeadPc, and the handler of a closed transport is put at its
\* last await, because the two awaits before it do nothing but move on.
Collect(st) ==
    [st EXCEPT !.pcs = [i \in DOMAIN st.pcs |->
                            IF ~st.pcs[i].closed
                            THEN st.pcs[i]
                            ELSE IF st.pcs[i].stage = "done"
                            THEN DeadPc
                            ELSE [st.pcs[i] EXCEPT
                                    !.stage = "setLocalDescription"]]]

SetVS(raw) ==
  \E st \in {Collect(raw)} :
    /\ streamStates' = st.ss
    /\ streamStatesRef' = st.ssRef
    /\ sessionsRef' = st.sessions
    /\ peersRef' = st.peers
    /\ remoteSessionMap' = st.rmap
    /\ socketsRef' = st.socks
    /\ ioCalls' = st.io
    /\ requestedSessionsRef' = st.requested
    /\ pcs' = st.pcs
    /\ sent' = st.sent
    /\ staleUpdates' = st.queued

\* the call or event a step handles, with its arguments as strings
Event(name, a, b, c) == [name |-> name, a |-> a, b |-> b, c |-> c]

\* A handler step that leaves the state st; it runs while fewer than
\* limit store updates wait for the next commit
HandleWithin(limit, st) ==
    /\ staleUpdates < limit
    /\ SetVS(st)

Handle(st) == HandleWithin(StaleBudget, st)

----------------------------------------------------------------------------
\* teardownPeer without `delete remoteSessionMap.current[...]`
TeardownPeerKeepMapping(st, sid) ==
    LET p == st.peers[sid]
    IN  IF p.pc # 0
        THEN [st EXCEPT
                !.pcs[p.pc].observed = FALSE,
                !.pcs[p.pc].closed = TRUE,
                !.peers[sid] = NoPeer]
        ELSE st

\* teardownPeer that forgets the entry without closing its transport
TeardownPeerNoClose(st, sid) ==
    LET p == st.peers[sid]
    IN  IF p.pc # 0
        THEN [st EXCEPT
                !.peers[sid] = NoPeer,
                !.rmap = IF p.remoteSocketId # NoSocket
                         THEN [@ EXCEPT ![p.remoteSocketId] = NoSession]
                         ELSE @]
        ELSE st

(* teardownPeer *)

TeardownPeer(st, sid) ==
    LET p == st.peers[sid]
    IN  IF p.pc # 0
        THEN [st EXCEPT
                !.pcs[p.pc].observed = FALSE,
                !.pcs[p.pc].closed = TRUE,
                !.peers[sid] = NoPeer,
                !.rmap = IF p.remoteSocketId # NoSocket
                         THEN [@ EXCEPT ![p.remoteSocketId] = NoSession]
                         ELSE @]
        ELSE st

\* stopStream that carries the previous stream handle over, as requestStream
\* does
StopStreamKeepStream(st, sid, nextStatus, errorMessage) ==
    LET t == TeardownPeer(st, sid)
    IN  [t EXCEPT
            !.requested = @ \ {sid},
            !.queued = @ + 1,
            !.ss[sid] = [status |-> nextStatus, stream |-> st.ss[sid].stream,
                         lastUpdated |-> st.ss[sid].lastUpdated,
                         remoteSocketId |-> NoSocket,
                         error |-> errorMessage]]

(* stopStream *)
StopStream(st, sid, nextStatus, errorMessage) ==
    LET t == TeardownPeer(st, sid)
    IN  [t EXCEPT
            !.requested = @ \ {sid},
            !.queued = @ + 1,
            !.ss[sid] = [status |-> nextStatus, stream |-> 0,
                         lastUpdated |-> st.ss[sid].lastUpdated,
                         remoteSocketId |-> NoSocket,
                         error |-> errorMessage]]

\* ensureSocket that opens a new socket whenever the cached one is not
\* connected
EnsureSocketUnlessUp(st, examId) ==
    IF st.socks[examId] = "up"
    THEN st
    ELSE [st EXCEPT !.socks[examId] = "up", !.io[examId] = @ + 1]

(* ensureSocket: the socket of an exam is created once and cached *)
EnsureSocket(st, examId) ==
    IF st.socks[examId] # "none"
    THEN st
    ELSE [st EXCEPT !.socks[examId] = "up", !.io[examId] = @ + 1]

\* socket.emit('proctor_request_stream', {studentIdToView}) on an exam's socket
RequestMsg(examId, userId) ==
    [event |-> "proctor_request_stream", examId |-> examId, arg |-> userId]

\* socket.emit('webrtc_answer', {answer, targetSocketId})
AnswerMsg(examId, targetSocketId) ==
    [event |-> "webrtc_answer", examId |-> examId, arg |-> targetSocketId]

(* requestStream *)
RequestStream(st, sid, force) ==
    IF st.sessions[sid] = "absent"
    THEN st
    ELSE
        LET currentState == st.ssRef[sid]
        IN  IF /\ ~force
               /\ currentState.status \in {"waiting", "connecting", "live"}
            THEN st
            ELSE
                LET t == EnsureSocket(st, ExamOf(sid))
                IN  [t EXCEPT
                        !.requested = @ \cup {sid},
                        !.queued = @ + 1,
                        !.ss[sid] = [status |-> "waiting",
                                     stream |-> st.ss[sid].stream,
                                     lastUpdated |-> st.ss[sid].lastUpdated,
                                     error |-> MsgNone,
                                     remoteSocketId |-> NoSocket],
                        !.sent = Append(@, RequestMsg(ExamOf(sid), UserOf(sid)))]

----------------------------------------------------------------------------
(* Effects *)

\* an initialisation that writes an idle StreamState for every listed
\* session, whether it has one or not
IdleInitResetsListed(ss, list) ==
    [s \in Sessions |->
        IF list[s] # "absent"
        THEN [AbsentState EXCEPT !.status = "idle"]
        ELSE ss[s]]

\* the effect that creates an idle StreamState for every listed session
IdleInit(ss, list) ==
    IF \A s \in Sessions : list[s] = "absent"
    THEN ss
    ELSE [s \in Sessions |->
            IF list[s] # "absent" /\ ss[s].status = "absent"
            THEN [AbsentState EXCEPT !.status = "idle"]
            ELSE ss[s]]

\* ... which returns before setStreamStates when the list is empty
IdleInitEffect(st, list) ==
    IF \A s \in Sessions : list[s] = "absent"
    THEN st
    ELSE [st EXCEPT !.ss = IdleInit(st.ss, list), !.queued = @ + 1]

\* the request loop with `state.status === 'idle'` as its only test, which
\* skips the sessions that have no StreamState yet
RECURSIVE ReconcileRequestsIdleOnly(_, _)
ReconcileRequestsIdleOnly(st, k) ==
    IF k > Len(SessionOrder)
    THEN st
    ELSE
        LET sid == SessionOrder[k]
            state == st.ssRef[sid]
            next == IF /\ st.sessions[sid] = "active"
                       /\ state.status = "idle"
                    THEN RequestStream(st, sid, FALSE)
                    ELSE st
        IN  ReconcileRequestsIdleOnly(next, k + 1)

RECURSIVE ReconcileRequests(_, _)
ReconcileRequests(st, k) ==
    IF k > Len(SessionOrder)
    THEN st
    ELSE
        LET sid == SessionOrder[k]
            state == st.ssRef[sid]
            next == IF /\ st.sessions[sid] = "active"
                       /\ state.status \in {"absent", "idle"}
                    THEN RequestStream(st, sid, FALSE)
                    ELSE st
        IN  ReconcileRequests(next, k + 1)

RECURSIVE ReconcileStops(_, _)
ReconcileStops(st, k) ==
    IF k > Len(SessionOrder)
    THEN st
    ELSE
        LET sid == SessionOrder[k]
            state == st.ssRef[sid]
            next == IF /\ st.sessions[sid] # "active"
                       /\ state.status # "absent"
                       /\ state.stream # 0
                    THEN StopStream(st, sid, "idle", MsgNone)
                    ELSE st
        IN  ReconcileStops(next, k + 1)

\* the reconciliation effect
Reconcile(st, auto) ==
    IF ~auto
    THEN st
    ELSE ReconcileStops(ReconcileRequests(st, 1), 1)

----------------------------------------------------------------------------
(* State after the first render, before its effects have run *)

InitViewer ==
    /\ profile \in Profiles
    /\ sessionData \in [Sessions -> [examId : Exams, userId : Users]]
    /\ sessionData["s1"] = [examId |-> "E1", userId |-> "U1"]
    /\ sessionData["s2"] \in {[examId |-> "E1", userId |-> "U2"],
                              [examId |-> "E2", userId |-> "U1"]}
    /\ profile # "exams" => sessionData["s2"].examId = "E1"
    /\ profile = "exams" => sessionData["s2"].examId = "E2"
    /\ mounted = FALSE
    /\ allSessions \in [Sessions -> ListStatus]
    /\ ~TwoSessions => allSessions["s2"] = "absent"
    /\ TwoSessions => \A s \in Sessions : allSessions[s] = "active"
    /\ sessionsRef = [s \in Sessions |-> "absent"]
    /\ streamStates = [s \in Sessions |-> AbsentState]
    /\ streamStatesRef = Mirror([s \in Sessions |-> AbsentState])
    /\ peersRef = [s \in Sessions |-> NoPeer]
    /\ remoteSessionMap = [r \in Sockets |-> NoSession]
    /\ socketsRef = [e \in Exams |-> "none"]
    /\ ioCalls = [e \in Exams |-> 0]
    /\ requestedSessionsRef = {}
    /\ pcs = <<>>
    /\ sent = <<>>
    /\ listChanges = 0
    /\ staleUpdates = 0
    /\ lastEvent = Event("render", "none", "none", "none")

(* The effects of the first commit, in declaration order: the two ref      *)
(* syncs, the idle initialisation, the reconciliation effect.              *)
MountEffects ==
    /\ ~mounted
    /\ mounted' = TRUE
    /\ LET synced == [VS EXCEPT !.ssRef = Mirror(streamStates),
                                !.sessions = allSessions]
       IN  SetVS(Reconcile(IdleInitEffect(synced, allSessions), autoRequest))
    /\ lastEvent' = Event("mount", "none", "none", "none")
    /\ UNCHANGED <<pubVars, dashVars>>
    /\ UNCHANGED <<profile, sessionData, allSessions, listChanges>>

(* A later commit.  React renders the hook with the latest store and the   *)
(* latest session list and then runs the effects whose dependencies        *)
(* changed: the two ref syncs and, when the list changed, the idle         *)
(* initialisation.  The reconciliation effect depends on [autoRequest,     *)
(* requestStream, stopStream] only, none of which changes after the first  *)
(* render, so it is not among the effects of a later commit.               *)
CommitEffects(st, list) ==
    LET synced == [st EXCEPT !.ssRef = Mirror(st.ss), !.sessions = list,
                             !.queued = 0]
    IN  IF list # st.sessions
        THEN IdleInitEffect(synced, list)
        ELSE synced

\* a commit caused by queued store updates
Commit ==
    /\ mounted
    /\ staleUpdates > 0
    /\ SetVS(CommitEffects(VS, allSessions))
    /\ lastEvent' = Event("commit", "none", "none", "none")
    /\ UNCHANGED <<pubVars, dashVars>>
    /\ UNCHANGED <<profile, sessionData, mounted, allSessions, listChanges>>

(* The parent component renders the hook with a changed session list.  The *)
(* handlers read the list through sessionsRef only, so the render and the  *)
(* effects of its commit are one step.                                     *)
SetSessions ==
    /\ mounted
    /\ listChanges < ListBudget
    /\ \E s \in {"s1"}, status \in ListStatus :
        /\ allSessions[s] # status
        /\ allSessions' = [allSessions EXCEPT ![s] = status]
        /\ SetVS(CommitEffects(VS, [allSessions EXCEPT ![s] = status]))
    /\ listChanges' = listChanges + 1
    /\ lastEvent' = Event("render", "none", "none", "none")
    /\ UNCHANGED <<pubVars, dashVars>>
    /\ UNCHANGED <<profile, sessionData, mounted>>

----------------------------------------------------------------------------
(* Calls of the returned API *)

\* requestStream(sessionId, {force}) called by the dashboard
CallRequestStream ==
    /\ mounted
    /\ \E sid \in Sessions, force \in BOOLEAN :
        /\ HandleWithin(CallBudget, RequestStream(VS, sid, force))
        /\ lastEvent' = Event("requestStream", sid,
                              IF force THEN "force" ELSE "noforce", "none")
    /\ UNCHANGED <<pubVars, dashVars>>
    /\ UNCHANGED <<profile, sessionData, mounted, allSessions, listChanges>>

\* stopStream(sessionId, 'idle') called by the dashboard
CallStopStream ==
    /\ mounted
    /\ \E sid \in Sessions :
        /\ HandleWithin(CallBudget, StopStream(VS, sid, "idle", MsgNone))
        /\ lastEvent' = Event("stopStream", sid, "idle", "none")
    /\ UNCHANGED <<pubVars, dashVars>>
    /\ UNCHANGED <<profile, sessionData, mounted, allSessions, listChanges>>

----------------------------------------------------------------------------
(* Events of the signaling socket of one exam *)

\* for (const session of relatedSessions) stopStream(session.id, 'error', msg)
RECURSIVE StopRelated(_, _, _, _)
StopRelated(st, related, msg, k) ==
    IF k > Len(SessionOrder)
    THEN st
    ELSE
        LET sid == SessionOrder[k]
            next == IF sid \in related
                    THEN StopStream(st, sid, "error", msg)
                    ELSE st
        IN  StopRelated(next, related, msg, k + 1)

\* sessionsRef.current.filter(session => session.examId === examId)
RelatedSessions(st, examId) ==
    {s \in Sessions : st.sessions[s] # "absent" /\ ExamOf(s) = examId}

\* ... && String(session.userId) === String(userId)
RelatedUserSessions(st, examId, userId) ==
    {s \in RelatedSessions(st, examId) : UserOf(s) = userId}

\* socket.on('disconnect')
OnDisconnect ==
    /\ \E examId \in Exams :
        /\ socketsRef[examId] = "up"
        /\ LET t == StopRelated(VS, RelatedSessions(VS, examId), MsgConnLost, 1)
           IN  Handle([t EXCEPT !.socks[examId] = "down"])
        /\ lastEvent' = Event("disconnect", examId, "none", "none")
    /\ UNCHANGED <<pubVars, dashVars>>
    /\ UNCHANGED <<profile, sessionData, mounted, allSessions, listChanges>>

\* socket.on('reconnect'): the handler body is empty
OnReconnect ==
    /\ \E examId \in Exams :
        /\ socketsRef[examId] = "down"
        /\ Handle([VS EXCEPT !.socks[examId] = "up"])
        /\ lastEvent' = Event("reconnect", examId, "none", "none")
    /\ UNCHANGED <<pubVars, dashVars>>
    /\ UNCHANGED <<profile, sessionData, mounted, allSessions, listChanges>>

\* socket.on('reconnect_failed')
OnReconnectFailed ==
    /\ \E examId \in Exams :
        /\ socketsRef[examId] = "down"
        /\ LET t == StopRelated(VS, RelatedSessions(VS, examId),
                                MsgReconnectFailed, 1)
           IN  Handle([t EXCEPT !.socks[examId] = "dead"])
        /\ lastEvent' = Event("reconnect_failed", examId, "none", "none")
    /\ UNCHANGED <<pubVars, dashVars>>
    /\ UNCHANGED <<profile, sessionData, mounted, allSessions, listChanges>>

\* socket.on('user_left')
OnUserLeft ==
    /\ \E examId \in Exams, userId \in Users :
        /\ socketsRef[examId] = "up"
        /\ Handle(StopRelated(VS, RelatedUserSessions(VS, examId, userId),
                             MsgUserLeft, 1))
        /\ lastEvent' = Event("user_left", examId, userId, "none")
    /\ UNCHANGED <<pubVars, dashVars>>
    /\ UNCHANGED <<profile, sessionData, mounted, allSessions, listChanges>>

\* a lookup that matches on the exam only and forgets the participant id
RECURSIVE FindTargetAnyUser(_, _, _, _)
FindTargetAnyUser(st, examId, studentId, k) ==
    IF k > Len(SessionOrder)
    THEN NoSession
    ELSE
        LET sid == SessionOrder[k]
        IN  IF st.sessions[sid] # "absent" /\ ExamOf(sid) = examId
            THEN sid
            ELSE FindTargetAnyUser(st, examId, studentId, k + 1)

\* sessionsRef.current.find(...) of the webrtc_offer_received handler:
\* the first listed session of the exam whose userId is studentId
RECURSIVE FindTarget(_, _, _, _)
FindTarget(st, examId, studentId, k) ==
    IF k > Len(SessionOrder)
    THEN NoSession
    ELSE
        LET sid == SessionOrder[k]
        IN  IF /\ st.sessions[sid] # "absent"
               /\ ExamOf(sid) = examId
               /\ UserOf(sid) = studentId
            THEN sid
            ELSE FindTarget(st, examId, studentId, k + 1)

\* new RTCPeerConnection(...) with the three observers of the handler
\* attached, suspended at its first await
NewPc(sid, senderSocketId, examId) ==
    [sid |-> sid, sender |-> senderSocketId, exam |-> examId,
     closed |-> FALSE, observed |-> TRUE,
     stage |-> "setRemoteDescription"]

\* socket.on('webrtc_offer_received'), up to its first await
OfferReceived(st, examId, senderSocketId, studentId) ==
    LET sid == FindTarget(st, examId, studentId, 1)
    IN  IF sid = NoSession
        THEN st
        ELSE
            LET t == TeardownPeer(st, sid)
                pc == Len(t.pcs) + 1
            IN  [t EXCEPT
                    !.pcs = Append(@, NewPc(sid, senderSocketId, examId)),
                    !.peers[sid] = [pc |-> pc,
                                    remoteSocketId |-> senderSocketId,
                                    examId |-> examId],
                    !.rmap[senderSocketId] = sid]

OnOfferReceived ==
    /\ Len(pcs) < PcBudget
    /\ \E examId \in Exams, senderSocketId \in Sockets, studentId \in Users :
        /\ socketsRef[examId] = "up"
        \* socket ids are opaque: the first sender seen is called r1
        /\ pcs = <<>> => senderSocketId = "r1"
        /\ profile = "shared" => senderSocketId = "r1"
        /\ Handle(OfferReceived(VS, examId, senderSocketId, studentId))
        /\ lastEvent' = Event("webrtc_offer_received", examId,
                              senderSocketId, studentId)
    /\ UNCHANGED <<pubVars, dashVars>>
    /\ UNCHANGED <<profile, sessionData, mounted, allSessions, listChanges>>

\* the rest of the handler: one awaited step settles
OfferContinue(st, pc, ok) ==
    LET link == st.pcs[pc]
    IN  IF ~ok
        THEN \* catch (error) { stopStream(sessionId, 'error', ...) }
             [StopStream(st, link.sid, "error", MsgNegotiation)
                EXCEPT !.pcs[pc].stage = "done"]
        ELSE IF link.stage = "setRemoteDescription"
        THEN [st EXCEPT !.pcs[pc].stage = "createAnswer"]
        ELSE IF link.stage = "createAnswer"
        THEN [st EXCEPT !.pcs[pc].stage = "setLocalDescription"]
        ELSE \* socket.emit('webrtc_answer'); status 'connecting'
             [st EXCEPT
                !.pcs[pc].stage = "done",
                !.queued = @ + 1,
                !.sent = Append(@, AnswerMsg(link.exam, link.sender)),
                !.ss[link.sid] = [status |-> "connecting",
                                  stream |-> st.ss[link.sid].stream,
                                  lastUpdated |-> st.ss[link.sid].lastUpdated,
                                  error |-> MsgNone,
                                  remoteSocketId |-> link.sender]]

\* The promise of the awaited step is owned by the browser: it may resolve,
\* reject, or (by not taking this step) never settle, also after close().
OfferStep ==
    /\ \E pc \in 1..Len(pcs), ok \in BOOLEAN :
        /\ pcs[pc].stage \in Pending
        /\ Handle(OfferContinue(VS, pc, ok))
        /\ lastEvent' = Event("settled", ToString(pc),
                              IF ok THEN "resolved" ELSE "rejected", "none")
    /\ UNCHANGED <<pubVars, dashVars>>
    /\ UNCHANGED <<profile, sessionData, mounted, allSessions, listChanges>>

\* a routing that hands the candidate to the transport created last,
\* whatever the remote-endpoint map says
IceTargetLatest(st, senderSocketId) == Len(st.pcs)

\* socket.on('webrtc_ice_candidate_received'): the transport the candidate is
\* handed to, 0 when the handler returns before addIceCandidate
IceTarget(st, senderSocketId) ==
    LET sessionId == st.rmap[senderSocketId]
    IN  IF sessionId = NoSession
        THEN 0
        ELSE st.peers[sessionId].pc

\* The handler awaits addIceCandidate inside try/catch with an empty catch
\* block and has no statement after it: apart from the call on the
\* transport, neither outcome changes anything.
OnIceCandidate ==
    /\ pcs # <<>>
    /\ \E examId \in Exams, senderSocketId \in Sockets, ok \in BOOLEAN :
        /\ socketsRef[examId] = "up"
        /\ Handle(VS)
        /\ LET target == IceTarget(VS, senderSocketId)
           IN  lastEvent' = Event("webrtc_ice_candidate_received",
                                  senderSocketId, ToString(target),
                                  IF target = 0 THEN "dropped"
                                  ELSE IF ok THEN "applied"
                                  ELSE "rejected")
    /\ UNCHANGED <<pubVars, dashVars>>
    /\ UNCHANGED <<profile, sessionData, mounted, allSessions, listChanges>>

----------------------------------------------------------------------------
(* Events of a transport; they reach the hook while its observers are set *)

\* pc.ontrack; tracks is the number of tracks of event.streams[0]
OnTrackHandler(st, pc, tracks) ==
    LET link == st.pcs[pc]
    IN  IF tracks = 0
        THEN st
        ELSE [st EXCEPT
                !.queued = @ + 1,
                !.ss[link.sid] = [status |-> "live", stream |-> pc,
                                  lastUpdated |-> 1, error |-> MsgNone,
                                  remoteSocketId |-> link.sender]]

OnTrack ==
    /\ \E pc \in 1..Len(pcs), tracks \in {0, 1} :
        /\ pcs[pc].observed
        /\ Handle(OnTrackHandler(VS, pc, tracks))
        /\ lastEvent' = Event("track", ToString(pc), ToString(tracks), "none")
    /\ UNCHANGED <<pubVars, dashVars>>
    /\ UNCHANGED <<profile, sessionData, mounted, allSessions, listChanges>>

\* an observer that treats 'closed' as it treats 'disconnected'
OnConnectionStateHandlerClosedIsError(st, pc, state) ==
    LET sid == st.pcs[pc].sid
        currentState == st.ssRef[sid]
    IN  CASE state = "failed" -> StopStream(st, sid, "error", MsgFailed)
          [] state \in {"disconnected", "closed"} ->
                StopStream(st, sid, "error", MsgInterrupted)
          [] state = "connected" ->
                IF /\ currentState.status # "absent"
                   /\ currentState.status # "live"
                   /\ currentState.stream # 0
                THEN [st EXCEPT !.queued = @ + 1,
                                !.ss[sid].status = "live",
                                !.ss[sid].lastUpdated = 1]
                ELSE st

\* pc.onconnectionstatechange
OnConnectionStateHandler(st, pc, state) ==
    LET sid == st.pcs[pc].sid
        currentState == st.ssRef[sid]
    IN  CASE state = "failed" -> StopStream(st, sid, "error", MsgFailed)
          [] state = "disconnected" ->
                StopStream(st, sid, "error", MsgInterrupted)
          [] state = "closed" -> StopStream(st, sid, "idle", MsgNone)
          [] state = "connected" ->
                IF /\ currentState.status # "absent"
                   /\ currentState.status # "live"
                   /\ currentState.stream # 0
                THEN [st EXCEPT !.queued = @ + 1,
                                !.ss[sid].status = "live",
                                !.ss[sid].lastUpdated = 1]
                ELSE st

OnConnectionStateChange ==
    /\ \E pc \in 1..Len(pcs),
          state \in {"failed", "disconnected", "closed", "connected"} :
        /\ pcs[pc].observed
        /\ Handle(OnConnectionStateHandler(VS, pc, state))
        /\ lastEvent' = Event("connectionstatechange", ToString(pc), state,
                              "none")
    /\ UNCHANGED <<pubVars, dashVars>>
    /\ UNCHANGED <<profile, sessionData, mounted, allSessions, listChanges>>

----------------------------------------------------------------------------
(* Publisher side: the signaling part of useAICameraMonitor                *)

(* A run of the publisher explores one part of its behaviour: "offers" has *)
(* MaxOfferRequests offer requests and no answer, "answers" has one offer  *)
(* request and the answers to it, "monitor" has one offer request and the  *)
(* calls of startMonitoring.  stopMonitoring, the connection-state events  *)
(* and the socket events happen in every run.                              *)
PubProfiles == {"offers", "answers", "monitor"}

OfferBudget == IF pubProfile = "offers" THEN MaxOfferRequests ELSE 1

PendingSetsBudget == IF pubProfile = "answers" THEN MaxPendingSets ELSE 0

MonitorBudget == IF pubProfile = "monitor" THEN MaxMonitorCalls ELSE 0

PS ==
    [connected |-> pubConnected, peers |-> peerConnectionsRef,
     pcs |-> pubPcs, tasks |-> offerTasks, camera |-> cameraStream,
     active |-> isActiveRef, usage |-> cameraUsageRef,
     monitor |-> monitorCalls, sent |-> <<>>]

SetPS(st) ==
    /\ pubProfile' = pubProfile
    /\ pubConnected' = st.connected
    /\ peerConnectionsRef' = st.peers
    /\ pubPcs' = st.pcs
    /\ offerTasks' = st.tasks
    /\ cameraStream' = st.camera
    /\ isActiveRef' = st.active
    /\ cameraUsageRef' = st.usage
    /\ monitorCalls' = st.monitor
    /\ pubSent' = st.sent

\* socket.emit('webrtc_offer', {offer, targetSocketId})
OfferMsg(proctorSocketId) ==
    [event |-> "webrtc_offer", arg |-> proctorSocketId]

(* teardownPeerConnection *)
TeardownPeerConnection(st, proctorSocketId) ==
    LET peer == st.peers[proctorSocketId]
    IN  IF peer = 0
        THEN st
        ELSE [st EXCEPT !.pcs[peer].observed = FALSE,
                        !.pcs[peer].closed = TRUE,
                        !.peers[proctorSocketId] = 0]

(* teardownAllPeers *)
TeardownAllPeers(st) ==
    [st EXCEPT
        !.pcs = [i \in DOMAIN st.pcs |->
                    IF \E r \in Proctors : st.peers[r] = i
                    THEN [st.pcs[i] EXCEPT !.observed = FALSE, !.closed = TRUE]
                    ELSE st.pcs[i]],
        !.peers = [r \in Proctors |-> 0]]

\* respondToProctorOfferRequest from `new RTCPeerConnection` to the await of
\* createOffer, for the call numbered task
CreatePublisherPeer(st, task) ==
    LET proctorSocketId == st.tasks[task].target
        pc == Len(st.pcs) + 1
    IN  [st EXCEPT
            !.pcs = Append(@, [target |-> proctorSocketId,
                               closed |-> FALSE, observed |-> TRUE,
                               remoteDescription |-> FALSE,
                               pendingSets |-> 0]),
            !.peers[proctorSocketId] = pc,
            !.tasks[task].pc = pc,
            !.tasks[task].stage = "createOffer"]

\* respondToProctorOfferRequest up to its first await
RespondToProctorOfferRequest(st, proctorSocketId) ==
    IF ~st.connected
    THEN st
    ELSE
        LET t == IF st.peers[proctorSocketId] # 0
                 THEN TeardownPeerConnection(st, proctorSocketId)
                 ELSE st
            task == Len(t.tasks) + 1
            called == [t EXCEPT !.tasks =
                        Append(@, [target |-> proctorSocketId, pc |-> 0,
                                   stage |-> "cameraStart"])]
        IN  IF st.camera
            THEN CreatePublisherPeer(called, task)
            ELSE called

\* a handler that answers whatever participant the request names
HandleOfferRequestAnyStudent(st, proctorSocketId, studentIdToView) ==
    IF proctorSocketId = "none"
    THEN st
    ELSE RespondToProctorOfferRequest(st, proctorSocketId)

\* handleOfferRequest
HandleOfferRequest(st, proctorSocketId, studentIdToView) ==
    IF proctorSocketId = "none"
    THEN st
    ELSE IF studentIdToView # "none" /\ studentIdToView # "me"
    THEN st
    ELSE RespondToProctorOfferRequest(st, proctorSocketId)

OnOfferRequest ==
    /\ Len(offerTasks) < OfferBudget
    /\ \E proctorSocketId \in Proctors \cup {"none"},
          studentIdToView \in StudentFilters :
        /\ SetPS(HandleOfferRequest(PS, proctorSocketId, studentIdToView))
        /\ pubEvent' = Event("webrtc_offer_request", proctorSocketId,
                             studentIdToView, "none")
    /\ UNCHANGED <<viewerVars, dashVars>>

\* cameraManager.start() has acquired the device: currentStream is set
CameraStarted(st) == [st EXCEPT !.camera = TRUE]

\* a continuation that goes on to `new RTCPeerConnection` whatever
\* cameraManager.start() gave
CameraStartSettledAlways(st, task, outcome) ==
    CreatePublisherPeer(st, task)

\* cameraManager.start() settles: with a stream, with no stream, or rejected
CameraStartSettled(st, task, outcome) ==
    IF outcome = "stream"
    THEN CreatePublisherPeer(CameraStarted(st), task)
    ELSE [st EXCEPT !.tasks[task].stage = "done"]

\* createOffer or setLocalDescription settles
OfferSettled(st, task, ok) ==
    LET job == st.tasks[task]
    IN  IF ~ok
        THEN [TeardownPeerConnection(st, job.target)
                EXCEPT !.tasks[task].stage = "done"]
        ELSE IF job.stage = "createOffer"
        THEN [st EXCEPT !.tasks[task].stage = "setLocalDescription"]
        ELSE [st EXCEPT !.tasks[task].stage = "done",
                        !.sent = Append(@, OfferMsg(job.target))]

\* one awaited step of a call of respondToProctorOfferRequest settles
OfferTaskStep ==
    /\ \E task \in 1..Len(offerTasks) :
        \/ /\ offerTasks[task].stage = "cameraStart"
           /\ \E outcome \in {"stream", "null", "rejected"} :
                /\ SetPS(CameraStartSettled(PS, task, outcome))
                /\ pubEvent' = Event("settled", ToString(task),
                                     "cameraStart", outcome)
        \/ /\ offerTasks[task].stage \in {"createOffer", "setLocalDescription"}
           /\ \E ok \in BOOLEAN :
                /\ SetPS(OfferSettled(PS, task, ok))
                /\ pubEvent' = Event("settled", ToString(task),
                                     offerTasks[task].stage,
                                     IF ok THEN "resolved" ELSE "rejected")
    /\ UNCHANGED <<viewerVars, dashVars>>

\* an observer that reacts to failed and closed only
OnPublisherConnectionStateHandlerFailedOnly(st, pc, state) ==
    IF state \in {"failed", "closed"}
    THEN TeardownPeerConnection(st, st.pcs[pc].target)
    ELSE st

\* peerConnection.onconnectionstatechange of the publisher's transport pc
OnPublisherConnectionStateHandler(st, pc, state) ==
    IF state \in {"failed", "disconnected", "closed"}
    THEN TeardownPeerConnection(st, st.pcs[pc].target)
    ELSE st

OnPublisherConnectionState ==
    /\ \E pc \in 1..Len(pubPcs),
          state \in {"failed", "disconnected", "closed", "connected"} :
        /\ pubPcs[pc].observed
        /\ SetPS(OnPublisherConnectionStateHandler(PS, pc, state))
        /\ pubEvent' = Event("connectionstatechange", ToString(pc), state,
                             "none")
    /\ UNCHANGED <<viewerVars, dashVars>>

\* handleAnswerReceived up to its await: peer.remoteDescription is null
\* until a setRemoteDescription has resolved
HandleAnswerReceived(st, senderSocketId, answer) ==
    LET peer == st.peers[senderSocketId]
    IN  IF peer = 0 \/ answer = "none"
        THEN st
        ELSE IF ~st.pcs[peer].remoteDescription
        THEN [st EXCEPT !.pcs[peer].pendingSets = @ + 1]
        ELSE st

OnAnswerReceived ==
    /\ PendingSetsBudget > 0
    /\ \E senderSocketId \in Proctors, answer \in {"none", "answer"} :
        /\ peerConnectionsRef[senderSocketId] # 0 =>
             pubPcs[peerConnectionsRef[senderSocketId]].pendingSets
                < PendingSetsBudget
        /\ SetPS(HandleAnswerReceived(PS, senderSocketId, answer))
        /\ pubEvent' = Event("webrtc_answer_received", senderSocketId,
                             answer, "none")
    /\ UNCHANGED <<viewerVars, dashVars>>

\* the setRemoteDescription awaited by handleAnswerReceived settles; the
\* catch block tears down whatever is registered for the sender
AnswerSettled(st, pc, ok) ==
    LET t == [st EXCEPT !.pcs[pc].pendingSets = @ - 1]
    IN  IF ok
        THEN [t EXCEPT !.pcs[pc].remoteDescription = TRUE]
        ELSE TeardownPeerConnection(t, t.pcs[pc].target)

AnswerStep ==
    /\ \E pc \in 1..Len(pubPcs), ok \in BOOLEAN :
        /\ pubPcs[pc].pendingSets > 0
        /\ SetPS(AnswerSettled(PS, pc, ok))
        /\ pubEvent' = Event("settled", ToString(pc), "setRemoteDescription",
                             IF ok THEN "resolved" ELSE "rejected")
    /\ UNCHANGED <<viewerVars, dashVars>>

\* cameraManager.incrementUsage(): the hook holds one more reference
CameraIncrementUsage(st) == st

\* cameraManager.decrementUsage(): the device is released when no other
\* consumer holds it
CameraDecrementUsage(st, released) ==
    IF released THEN [st EXCEPT !.camera = FALSE] ELSE st

\* startMonitoring up to `await cameraManager.start()`
StartMonitoring(st) ==
    IF st.active
    THEN st
    ELSE LET t == IF ~st.usage
                  THEN [CameraIncrementUsage(st) EXCEPT !.usage = TRUE]
                  ELSE st
         IN  [t EXCEPT !.monitor = @ + 1]

CallStartMonitoring ==
    /\ monitorCalls < MonitorBudget
    /\ SetPS(StartMonitoring(PS))
    /\ pubEvent' = Event("startMonitoring", "none", "none", "none")
    /\ UNCHANGED <<viewerVars, dashVars>>

\* startMonitoring after cameraManager.start() has settled
MonitorSettled(st, ok, released) ==
    LET t == [st EXCEPT !.monitor = @ - 1]
    IN  IF ok
        THEN [CameraStarted(t) EXCEPT !.active = TRUE]
        ELSE IF t.usage
        THEN [CameraDecrementUsage(t, released) EXCEPT !.usage = FALSE]
        ELSE t

MonitorStep ==
    /\ monitorCalls > 0
    /\ \E ok \in BOOLEAN, released \in BOOLEAN :
        /\ (ok \/ ~cameraUsageRef) => ~released
        /\ SetPS(MonitorSettled(PS, ok, released))
        /\ pubEvent' = Event("settled", "startMonitoring", "cameraStart",
                             IF ok THEN "resolved" ELSE "rejected")
    /\ UNCHANGED <<viewerVars, dashVars>>

(* stopMonitoring *)
StopMonitoring(st, released) ==
    LET t == IF st.usage
             THEN [CameraDecrementUsage(st, released) EXCEPT !.usage = FALSE]
             ELSE st
    IN  [TeardownAllPeers(t) EXCEPT !.active = FALSE]

CallStopMonitoring ==
    /\ \E released \in BOOLEAN :
        /\ ~cameraUsageRef => ~released
        /\ SetPS(StopMonitoring(PS, released))
    /\ pubEvent' = Event("stopMonitoring", "none", "none", "none")
    /\ UNCHANGED <<viewerVars, dashVars>>

\* handleSocketDisconnect
OnPublisherDisconnect ==
    /\ pubConnected
    /\ SetPS([TeardownAllPeers(PS) EXCEPT !.connected = FALSE])
    /\ pubEvent' = Event("disconnect", "none", "none", "none")
    /\ UNCHANGED <<viewerVars, dashVars>>

\* the socket reconnects; handleConnect only logs
OnPublisherConnect ==
    /\ ~pubConnected
    /\ SetPS([PS EXCEPT !.connected = TRUE])
    /\ pubEvent' = Event("connect", "none", "none", "none")
    /\ UNCHANGED <<viewerVars, dashVars>>

InitPublisher ==
    /\ pubProfile \in PubProfiles
    /\ pubConnected = TRUE
    /\ peerConnectionsRef = [r \in Proctors |-> 0]
    /\ pubPcs = <<>>
    /\ offerTasks = <<>>
    /\ cameraStream \in BOOLEAN
    /\ isActiveRef = FALSE
    /\ cameraUsageRef = FALSE
    /\ monitorCalls = 0
    /\ pubSent = <<>>
    /\ pubEvent = Event("render", "none", "none", "none")

----------------------------------------------------------------------------
(* The dashboard hook: useProctoring *)

\* A run of the dashboard explores one of two parts of its behaviour:
\*   "list"  events and calls for d1, d2 and for sessions the list does not
\*           hold, every violation of severity 'medium'; sessions are
\*           terminated and completed; up to MaxAlerts alerts for listed
\*           sessions;
\*   "risk"  events and calls for d1 only, every alert with a new violation
\*           id and with either severity; up to MaxRiskAlerts alerts.
DashProfiles == {"list", "risk"}

AlertBudget == IF dashProfile = "risk" THEN MaxRiskAlerts ELSE MaxAlerts

\* ids of the sessions of the list
DashIds == {"d1", "d2"}
\* event.sessionId of a proctoring_alert: a session of DashIds, a session
\* the list never holds, or no sessionId at all
AlertSessionIds == {"d1", "d2", "dx", "none"}
\* severity of a violation; the hook tells 'critical' from the others
Severities == {"medium", "critical"}

ViolationId(n) == "v" \o ToString(n)

\* ids of the violations the list holds
RecordedIds ==
    UNION {{sessions[i].violations[j].id : j \in 1..Len(sessions[i].violations)} :
            i \in 1..Len(sessions)}

\* the ids an event may carry: every id of the list and one that is new
AlertIds == {ViolationId(n) : n \in 1..(Cardinality(RecordedIds) + 1)}

\* prev.findIndex(s => s.id === sessionId), counted from 1; 0 stands for -1
FindIndex(prev, sessionId) ==
    IF \E i \in 1..Len(prev) : prev[i].id = sessionId
    THEN CHOOSE i \in 1..Len(prev) :
            /\ prev[i].id = sessionId
            /\ \A j \in 1..(i - 1) : prev[j].id # sessionId
    ELSE 0

\* backendEventToViolation of utils/proctoringAdapter: the violation of an
\* event has the id and the severity of the event and is not resolved
BackendEventToViolation(event) ==
    [id |-> event.id, severity |-> event.severity, resolved |-> FALSE]

\* the updater of socket.on('proctoring_alert') without the test of
\* violationExists
ProctoringAlertAlwaysAppends(prev, event) ==
    LET sessionId ==
            IF event.sessionId # "none" THEN event.sessionId ELSE event.id
        sessionIndex == FindIndex(prev, sessionId)
    IN  IF sessionIndex = 0
        THEN prev
        ELSE
            LET session == prev[sessionIndex]
                updatedViolations ==
                    Append(session.violations, BackendEventToViolation(event))
            IN  [prev EXCEPT ![sessionIndex] =
                    [session EXCEPT !.violations = updatedViolations,
                                    !.totalViolations = Len(updatedViolations)]]

\* the updater of socket.on('proctoring_alert')
ProctoringAlert(prev, event) ==
    LET sessionId ==
            IF event.sessionId # "none" THEN event.sessionId ELSE event.id
        sessionIndex == FindIndex(prev, sessionId)
    IN  IF sessionIndex = 0
        THEN prev
        ELSE
            LET session == prev[sessionIndex]
                newViolation == BackendEventToViolation(event)
                violationExists ==
                    \E j \in 1..Len(session.violations) :
                        session.violations[j].id = newViolation.id
                updatedViolations == Append(session.violations, newViolation)
                unresolvedViolations ==
                    Cardinality({j \in 1..Len(updatedViolations) :
                                    ~updatedViolations[j].resolved})
                criticalViolations ==
                    Cardinality({j \in 1..Len(updatedViolations) :
                                    /\ updatedViolations[j].severity = "critical"
                                    /\ ~updatedViolations[j].resolved})
                riskLevel ==
                    IF criticalViolations > 0 \/ unresolvedViolations >= 5
                    THEN "critical"
                    ELSE IF unresolvedViolations >= 3
                    THEN "high"
                    ELSE IF unresolvedViolations >= 1
                    THEN "medium"
                    ELSE "low"
            IN  IF violationExists
                THEN prev
                ELSE [prev EXCEPT ![sessionIndex] =
                        [session EXCEPT !.violations = updatedViolations,
                                        !.totalViolations = Len(updatedViolations),
                                        !.riskLevel = riskLevel]]

\* the updater of resolveViolation, applied when reviewEvent succeeded
ResolveViolation(prev, sessionId, violationId) ==
    [i \in 1..Len(prev) |->
        IF prev[i].id = sessionId
        THEN [prev[i] EXCEPT !.violations =
                [j \in 1..Len(prev[i].violations) |->
                    IF prev[i].violations[j].id = violationId
                    THEN [prev[i].violations[j] EXCEPT !.resolved = TRUE]
                    ELSE prev[i].violations[j]]]
        ELSE prev[i]]

\* the updater of terminateSession, applied when the API call succeeded
TerminateSession(prev, sessionId) ==
    [i \in 1..Len(prev) |->
        IF prev[i].id = sessionId
        THEN [prev[i] EXCEPT !.status = "terminated"]
        ELSE prev[i]]

\* the updater of socket.on('proctoring_session_completed')
SessionCompleted(prev, sessionId) ==
    IF FindIndex(prev, sessionId) = 0
    THEN prev
    ELSE SelectSeq(prev, LAMBDA s : s.id # sessionId)

\* the updater of the risk-level effect
RiskLevelEffect(prev) ==
    [i \in 1..Len(prev) |->
        IF prev[i].status # "active"
        THEN prev[i]
        ELSE
            LET session == prev[i]
                unresolvedViolations ==
                    Cardinality({j \in 1..Len(session.violations) :
                                    ~session.violations[j].resolved})
                criticalViolations ==
                    Cardinality({j \in 1..Len(session.violations) :
                                    /\ session.violations[j].severity = "critical"
                                    /\ ~session.violations[j].resolved})
                riskLevel ==
                    IF criticalViolations > 0 \/ unresolvedViolations >= 5
                    THEN "critical"
                    ELSE IF unresolvedViolations >= 3
                    THEN "high"
                    ELSE IF unresolvedViolations >= 1
                    THEN "medium"
                    ELSE "low"
            IN  [session EXCEPT !.riskLevel = riskLevel]]

\* the dependency of the risk-level effect:
\* sessions.map(s => s.violations.length).join(',')
ViolationLengths(list) == [i \in 1..Len(list) |-> Len(list[i].violations)]

\* React renders the hook with the new store and runs the risk-level effect
\* when its dependency differs from that of the previous render
RenderSessions(prev, next) ==
    IF ViolationLengths(next) # ViolationLengths(prev)
    THEN RiskLevelEffect(next)
    ELSE next

\* socket.on('proctoring_alert')
OnProctoringAlert ==
    /\ \E sessionId \in AlertSessionIds, id \in AlertIds, severity \in Severities :
        LET event == [sessionId |-> sessionId, id |-> id, severity |-> severity]
            listed == FindIndex(sessions, sessionId) # 0
        IN  /\ listed => alerts < AlertBudget
            /\ dashProfile = "list" => severity = "medium"
            /\ dashProfile = "risk" =>
                    /\ sessionId = "d1"
                    /\ id = ViolationId(Cardinality(RecordedIds) + 1)
            /\ sessions' = RenderSessions(sessions, ProctoringAlert(sessions, event))
            /\ alerts' = IF listed THEN alerts + 1 ELSE alerts
            /\ dashEvent' = Event("proctoring_alert", sessionId, id, severity)
    /\ UNCHANGED <<viewerVars, pubVars, dashProfile>>

\* the page calls resolveViolation; reviewEvent succeeds or not
CallResolveViolation ==
    /\ \E sessionId \in DashIds \cup {"dx"}, violationId \in AlertIds,
          success \in BOOLEAN :
        /\ dashProfile = "risk" => sessionId = "d1"
        /\ sessions' =
            IF success
            THEN RenderSessions(sessions,
                                ResolveViolation(sessions, sessionId, violationId))
            ELSE sessions
        /\ dashEvent' = Event("resolveViolation", sessionId, violationId,
                              IF success THEN "true" ELSE "false")
    /\ UNCHANGED <<viewerVars, pubVars, dashProfile, alerts>>

\* the page calls terminateSession; the API call succeeds or not
CallTerminateSession ==
    /\ dashProfile = "list"
    /\ \E sessionId \in DashIds \cup {"dx"}, success \in BOOLEAN :
        /\ sessions' =
            IF success
            THEN RenderSessions(sessions, TerminateSession(sessions, sessionId))
            ELSE sessions
        /\ dashEvent' = Event("terminateSession", sessionId, "none",
                              IF success THEN "true" ELSE "false")
    /\ UNCHANGED <<viewerVars, pubVars, dashProfile, alerts>>

\* socket.on('proctoring_session_completed')
OnSessionCompleted ==
    /\ dashProfile = "list"
    /\ \E sessionId \in DashIds \cup {"dx"} :
        /\ sessions' = RenderSessions(sessions, SessionCompleted(sessions, sessionId))
        /\ dashEvent' = Event("proctoring_session_completed", sessionId,
                              "none", "none")
    /\ UNCHANGED <<viewerVars, pubVars, dashProfile, alerts>>

\* the list after the first fetch: two sessions under way, nothing recorded
InitDashboard ==
    /\ dashProfile \in DashProfiles
    /\ sessions =
        <<[id |-> "d1", status |-> "active", violations |-> <<>>,
           totalViolations |-> 0, riskLevel |-> "low"],
          [id |-> "d2", status |-> "active", violations |-> <<>>,
           totalViolations |-> 0, riskLevel |-> "low"]>>
    /\ alerts = 0
    /\ dashEvent = Event("render", "none", "none", "none")

InitDash ==
    /\ InitViewer
    /\ profile = "link"
    /\ allSessions = [s \in Sessions |-> "absent"]
    /\ InitPublisher
    /\ pubProfile = "offers"
    /\ cameraStream = FALSE
    /\ InitDashboard

NextDash ==
    \/ OnProctoringAlert
    \/ CallResolveViolation
    \/ CallTerminateSession
    \/ OnSessionCompleted

SpecDash == InitDash /\ [][NextDash]_vars

----------------------------------------------------------------------------
(* The viewer hook *)
Init ==
    /\ InitViewer
    /\ profile \notin {"shared", "stale"}
    /\ InitPublisher
    /\ pubProfile = "offers"
    /\ cameraStream = FALSE
    /\ InitDashboard
    /\ dashProfile = "list"

Next ==
    \/ MountEffects
    \/ Commit
    \/ SetSessions
    \/ CallRequestStream
    \/ CallStopStream
    \/ OnDisconnect
    \/ OnReconnect
    \/ OnReconnectFailed
    \/ OnUserLeft
    \/ OnOfferReceived
    \/ OfferStep
    \/ OnIceCandidate
    \/ OnTrack
    \/ OnConnectionStateChange

Spec == Init /\ [][Next]_vars

(* The viewer hook with events that overtake the commit of the store *)
InitStale ==
    /\ InitViewer
    /\ profile = "stale"
    /\ InitPublisher
    /\ pubProfile = "offers"
    /\ cameraStream = FALSE
    /\ InitDashboard
    /\ dashProfile = "list"

SpecStale == InitStale /\ [][Next]_vars

(* The viewer hook with two sessions behind one sender socket *)
InitShared ==
    /\ InitViewer
    /\ profile = "shared"
    /\ InitPublisher
    /\ pubProfile = "offers"
    /\ cameraStream = FALSE
    /\ InitDashboard
    /\ dashProfile = "list"

SpecShared == InitShared /\ [][Next]_vars

(* The publisher hook *)
InitPub ==
    /\ InitViewer
    /\ profile = "link"
    /\ allSessions = [s \in Sessions |-> "absent"]
    /\ InitPublisher
    /\ InitDashboard
    /\ dashProfile = "list"

NextPub ==
    \/ OnOfferRequest
    \/ OfferTaskStep
    \/ OnPublisherConnectionState
    \/ OnPublisherDisconnect
    \/ OnPublisherConnect
    \/ OnAnswerReceived
    \/ AnswerStep
    \/ CallStartMonitoring
    \/ MonitorStep
    \/ CallStopMonitoring

SpecPub == InitPub /\ [][NextPub]_vars

----------------------------------------------------------------------------
(* Properties of the viewer hook, checked under Spec *)

OpenPcs(s) == {i \in 1..Len(pcs) : ~pcs[i].closed /\ pcs[i].sid = s}

OneOpenTransport ==
    \A s \in Sessions :
        /\ Cardinality(OpenPcs(s)) <= 1
        /\ \A i \in OpenPcs(s) : peersRef[s].pc = i

\* C1: a session never has more than one open transport, and the open one is
\* the registered one; a step that registers another transport for a session
\* that has a PeerLink leaves the old transport closed with its observers
\* detached, and leaves no remote-endpoint entry pointing to the session
\* other than that of the new link.
C1_OneLinkPerSession ==
    [][/\ OneOpenTransport'
       /\ \A s \in Sessions :
            (peersRef[s].pc # 0 /\ peersRef'[s].pc # peersRef[s].pc) =>
                /\ pcs'[peersRef[s].pc].closed
                /\ ~pcs'[peersRef[s].pc].observed
                /\ \A r \in Sockets :
                     remoteSessionMap'[r] = s =>
                        peersRef'[s].remoteSocketId = r]_vars

\* a second offer has replaced the link of a live session: transport 1
\* delivered the stream the store still shows and is closed, transport 2 is
\* open and registered
C1_Witness ==
    /\ Len(pcs) = 2
    /\ pcs[1].closed
    /\ ~pcs[2].closed
    /\ peersRef["s1"].pc = 2
    /\ streamStates["s1"].stream = 1

\* C2: when an awaited step of the offer handler settles for a transport
\* that was torn down in the meantime, the rest of the handler changes no
\* StreamState, tears down no PeerLink and emits nothing.
C2_TornDownContinuationIsNoOp ==
    [][\A i \in 1..Len(pcs) :
         (/\ lastEvent'.name = "settled"
          /\ lastEvent'.a = ToString(i)
          /\ pcs[i].closed) =>
            /\ streamStates' = streamStates
            /\ peersRef' = peersRef
            /\ remoteSessionMap' = remoteSessionMap
            /\ sent' = <<>>]_vars

\* C3: a step that makes a session live leaves it with a PeerLink and with
\* the stream handle that this PeerLink delivered.
C3_LiveOnlyAfterTrack ==
    [][\A s \in Sessions :
         (streamStates'[s].status = "live" /\ streamStates[s].status # "live")
            => /\ peersRef'[s].pc # 0
               /\ streamStates'[s].stream = peersRef'[s].pc]_vars

\* C4: a stream handle in the store was delivered by the session's current
\* PeerLink.
C4_StreamBackedByLink ==
    \A s \in Sessions :
        streamStates[s].stream # 0 =>
            peersRef[s].pc = streamStates[s].stream

\* C5: of two consecutive requestStream(s) calls without force, the first of
\* which found s idle and emitted the request, the second emits nothing.
C5_RequestIdempotent ==
    [][\A s \in Sessions :
         (/\ lastEvent.name = "requestStream"
          /\ lastEvent.a = s
          /\ lastEvent.b = "noforce"
          /\ sent # <<>>
          /\ streamStatesRef[s].status \in {"absent", "idle"}
          /\ lastEvent'.name = "requestStream"
          /\ lastEvent'.a = s
          /\ lastEvent'.b = "noforce") => sent' = <<>>]_vars

\* C7: the step that handles disconnect on an exam's channel leaves no
\* PeerLink of that exam, and every session of the exam that was waiting,
\* connecting or live is in error with the connection-lost message and
\* without a stream handle.
C7_DisconnectStopsExam ==
    [][\A e \in Exams :
         (lastEvent'.name = "disconnect" /\ lastEvent'.a = e) =>
            \A s \in Sessions :
                /\ (peersRef[s].pc # 0 /\ peersRef[s].examId = e) =>
                        /\ peersRef'[s] = NoPeer
                        /\ pcs'[peersRef[s].pc].closed
                        /\ remoteSessionMap'[peersRef[s].remoteSocketId] # s
                /\ (/\ ExamOf(s) = e
                    /\ streamStates[s].status \in
                            {"waiting", "connecting", "live"}) =>
                        /\ streamStates'[s].status = "error"
                        /\ streamStates'[s].error = MsgConnLost
                        /\ streamStates'[s].stream = 0]_vars

\* C8: the step that handles user_left {userId: U} on an exam's channel
\* tears down every PeerLink of that exam whose session belongs to U and
\* leaves the session in error with the participant-disconnected message.
C8_UserLeftStopsParticipant ==
    [][\A e \in Exams, u \in Users :
         (/\ lastEvent'.name = "user_left"
          /\ lastEvent'.a = e
          /\ lastEvent'.b = u) =>
            \A s \in Sessions :
                (/\ peersRef[s].pc # 0
                 /\ peersRef[s].examId = e
                 /\ UserOf(s) = u) =>
                    /\ peersRef'[s] = NoPeer
                    /\ pcs'[peersRef[s].pc].closed
                    /\ streamStates'[s].status = "error"
                    /\ streamStates'[s].error = MsgUserLeft]_vars

RequestsFor(out, s) ==
    {k \in 1..Len(out) : out[k] = RequestMsg(ExamOf(s), UserOf(s))}

\* C9: the reconciliation effect emits exactly one proctor_request_stream,
\* carrying the participant id, for every active session without a
\* StreamState (or with an idle one), emits nothing else, and leaves these
\* sessions waiting.
C9_ReconcileRequestsActive ==
    [][lastEvent'.name = "mount" =>
         /\ \A s \in Sessions :
              (/\ allSessions[s] = "active"
               /\ streamStates[s].status \in {"absent", "idle"}) =>
                    /\ Cardinality(RequestsFor(sent', s)) = 1
                    /\ streamStates'[s].status = "waiting"
         /\ Len(sent') =
              Cardinality({s \in Sessions : allSessions[s] = "active"})]_vars

\* the state the reconciliation effect leaves for the desired set {s1}
C9_Witness ==
    /\ lastEvent.name = "mount"
    /\ allSessions = [s \in Sessions |-> IF s = "s1" THEN "active" ELSE "absent"]
    /\ sent = <<RequestMsg("E1", "U1")>>
    /\ streamStates["s1"].status = "waiting"

\* the sessions of the list as the handlers see it that belong to exam e and
\* participant u
KnownSessions(e, u) ==
    {s \in Sessions :
        sessionsRef[s] # "absent" /\ ExamOf(s) = e /\ UserOf(s) = u}

\* C11: a webrtc_offer_received whose studentId matches no session of the
\* channel's exam creates no transport and no PeerLink, adds no
\* remote-endpoint entry, sends nothing and leaves every StreamState as it
\* was.
C11_UnknownParticipantOfferIgnored ==
    [][\A e \in Exams, u \in Users :
         (/\ lastEvent'.name = "webrtc_offer_received"
          /\ lastEvent'.a = e
          /\ lastEvent'.c = u
          /\ KnownSessions(e, u) = {}) =>
            /\ pcs' = pcs
            /\ peersRef' = peersRef
            /\ remoteSessionMap' = remoteSessionMap
            /\ streamStates' = streamStates
            /\ sent' = <<>>]_vars

\* an offer for participant U2 has just been handled while s1 (participant
\* U1) is the only listed session and holds a PeerLink
C11_Witness ==
    /\ lastEvent.name = "webrtc_offer_received"
    /\ lastEvent.c = "U2"
    /\ KnownSessions(lastEvent.a, "U2") = {}
    /\ sessionsRef["s1"] = "active"
    /\ peersRef["s1"].pc = 1
    /\ Len(pcs) = 1

\* C12: a webrtc_ice_candidate_received whose senderSocketId has no entry in
\* the remote-endpoint map is handed to no transport and changes no
\* StreamState, no PeerLink, no transport and no map entry.
C12_UnmappedCandidateDropped ==
    [][\A r \in Sockets :
         (/\ lastEvent'.name = "webrtc_ice_candidate_received"
          /\ lastEvent'.a = r
          /\ remoteSessionMap[r] = NoSession) =>
            /\ lastEvent'.c = "dropped"
            /\ pcs' = pcs
            /\ peersRef' = peersRef
            /\ remoteSessionMap' = remoteSessionMap
            /\ streamStates' = streamStates
            /\ sent' = <<>>]_vars

\* a candidate from r1 has just been dropped after the PeerLink that r1 was
\* mapped to had been torn down
C12_Witness ==
    /\ lastEvent.name = "webrtc_ice_candidate_received"
    /\ lastEvent.a = "r1"
    /\ lastEvent.c = "dropped"
    /\ remoteSessionMap["r1"] = NoSession
    /\ Len(pcs) = 1
    /\ pcs[1].closed

\* the step handles a connectionstatechange of transport i to state, and
\* transport i is the one of the PeerLink of its session
CurrentLinkChanges(i, state) ==
    /\ lastEvent'.name = "connectionstatechange"
    /\ lastEvent'.a = ToString(i)
    /\ lastEvent'.b = state
    /\ peersRef[pcs[i].sid].pc = i

\* the PeerLink of transport i is gone after the step and the store holds
\* [status, error] and no stream handle for its session
StoppedWith(i, status, error) ==
    /\ pcs'[i].closed
    /\ ~pcs'[i].observed
    /\ peersRef'[pcs[i].sid] = NoPeer
    /\ streamStates'[pcs[i].sid].status = status
    /\ streamStates'[pcs[i].sid].error = error
    /\ streamStates'[pcs[i].sid].stream = 0

\* C13: a change of the transport of a session's PeerLink to 'closed'
\* leaves the session idle, without error text and without stream handle,
\* and the PeerLink torn down.
C13_ClosedYieldsIdle ==
    [][\A i \in 1..Len(pcs) :
         CurrentLinkChanges(i, "closed") => StoppedWith(i, "idle", MsgNone)]_vars

\* the live session s1 has just become idle because its transport closed
C13_Witness ==
    /\ lastEvent.name = "connectionstatechange"
    /\ lastEvent.a = "1"
    /\ lastEvent.b = "closed"
    /\ streamStates["s1"].status = "idle"
    /\ streamStates["s1"].lastUpdated = 1
    /\ peersRef["s1"] = NoPeer
    /\ pcs[1].closed

\* C14: a change of the transport of a session's PeerLink to 'failed' or to
\* 'disconnected' leaves the session in error, with the message of that
\* state and without stream handle, and the PeerLink torn down; the
\* StreamState of every other session is as before.
C14_FailedAndDisconnectedYieldError ==
    [][\A i \in 1..Len(pcs) :
         /\ CurrentLinkChanges(i, "failed") =>
                StoppedWith(i, "error", MsgFailed)
         /\ CurrentLinkChanges(i, "disconnected") =>
                StoppedWith(i, "error", MsgInterrupted)
         /\ (\/ CurrentLinkChanges(i, "failed")
             \/ CurrentLinkChanges(i, "disconnected")) =>
                \A t \in Sessions \ {pcs[i].sid} :
                    streamStates'[t] = streamStates[t]]_vars

\* the live session s1 is in error because its transport was disconnected,
\* while the other listed session s2 is still waiting
C14_Witness ==
    /\ lastEvent.name = "connectionstatechange"
    /\ lastEvent.b = "disconnected"
    /\ streamStates["s1"].status = "error"
    /\ streamStates["s1"].error = MsgInterrupted
    /\ streamStates["s1"].lastUpdated = 1
    /\ streamStates["s2"].status = "waiting"
    /\ peersRef["s1"] = NoPeer

\* every entry r -> s of the remote-endpoint map is backed by the PeerLink
\* of s, whose transport is open and whose remote endpoint is r
MapEntriesBacked ==
    \A r \in Sockets :
        remoteSessionMap[r] # NoSession =>
            /\ peersRef[remoteSessionMap[r]].pc # 0
            /\ peersRef[remoteSessionMap[r]].remoteSocketId = r
            /\ ~pcs[peersRef[remoteSessionMap[r]].pc].closed

\* C15: every entry of the remote-endpoint map is backed by an existing
\* PeerLink with that remote endpoint, a torn-down PeerLink leaves no entry
\* behind, and a candidate from r is only ever handed to the open transport
\* of a PeerLink whose remote endpoint is r.
C15_MapFollowsLinks ==
    [][/\ MapEntriesBacked'
       /\ \A s \in Sessions :
            (peersRef[s].pc # 0 /\ peersRef'[s] = NoPeer) =>
                remoteSessionMap'[peersRef[s].remoteSocketId] # s
       /\ \A i \in 1..Len(pcs), r \in Sockets :
            (/\ lastEvent'.name = "webrtc_ice_candidate_received"
             /\ lastEvent'.a = r
             /\ lastEvent'.b = ToString(i)) =>
                /\ ~pcs[i].closed
                /\ pcs[i].sender = r
                /\ peersRef[pcs[i].sid].pc = i]_vars

\* the PeerLink of s1 towards r1 was replaced by one towards r2: the entry
\* of r1 is gone, the entry of r2 leads to s1
C15_Witness ==
    /\ Len(pcs) = 2
    /\ pcs[1].closed
    /\ remoteSessionMap["r1"] = NoSession
    /\ remoteSessionMap["r2"] = "s1"
    /\ peersRef["s1"].pc = 2
    /\ peersRef["s1"].remoteSocketId = "r2"

\* C16: the hook calls io() at most once per exam id, a socket is cached for
\* an exam exactly when it was opened for it, and requestStream(s) emits on
\* the socket of the exam of s.
C16_OneSocketPerExam ==
    [][/\ \A e \in Exams :
            /\ ioCalls'[e] <= 1
            /\ ioCalls'[e] = 0 <=> socketsRef'[e] = "none"
       /\ lastEvent'.name = "requestStream" =>
            \A k \in 1..Len(sent') :
                sent'[k].examId = ExamOf(lastEvent'.a)]_vars

\* both exams have their socket, opened by the reconciliation effect, and a
\* forced requestStream has just emitted on one of them again
C16_Witness ==
    /\ ioCalls = [e \in Exams |-> 1]
    /\ lastEvent.name = "requestStream"
    /\ lastEvent.b = "force"
    /\ Len(sent) = 1

\* C17: the step that handles reconnect_failed on an exam's channel tears
\* down every PeerLink of that exam and leaves its session in error with the
\* cannot-reconnect message; and no step emits a message on a channel that
\* has given up reconnecting.
C17_DeadChannelIsQuiet ==
    [][/\ \A e \in Exams :
            (lastEvent'.name = "reconnect_failed" /\ lastEvent'.a = e) =>
                \A s \in Sessions :
                    (peersRef[s].pc # 0 /\ peersRef[s].examId = e) =>
                        /\ peersRef'[s] = NoPeer
                        /\ pcs'[peersRef[s].pc].closed
                        /\ streamStates'[s].status = "error"
                        /\ streamStates'[s].error = MsgReconnectFailed
       /\ \A k \in 1..Len(sent') :
            socketsRef'[sent'[k].examId] # "dead"]_vars

\* C18 (viewer): when addIceCandidate rejects on the transport of a
\* PeerLink, the PeerLink is torn down and its session is in error.
C18_NegotiationErrorTearsDown ==
    [][\A i \in 1..Len(pcs) :
         (/\ lastEvent'.name = "webrtc_ice_candidate_received"
          /\ lastEvent'.b = ToString(i)
          /\ lastEvent'.c = "rejected") =>
            /\ pcs'[i].closed
            /\ peersRef'[pcs[i].sid] = NoPeer
            /\ streamStates'[pcs[i].sid].status = "error"]_vars

\* C19: once a later webrtc_offer_received has registered a transport for
\* the same session, no step of the setup sequence of the earlier offer
\* changes a StreamState, a PeerLink, a transport other than its own or the
\* remote-endpoint map, or emits a message.
C19_SetupSequencesDoNotInterleave ==
    [][\A i \in 1..Len(pcs) :
         (/\ lastEvent'.name = "settled"
          /\ lastEvent'.a = ToString(i)
          /\ \E j \in (i + 1)..Len(pcs) : pcs[j].sid = pcs[i].sid) =>
            /\ streamStates' = streamStates
            /\ peersRef' = peersRef
            /\ remoteSessionMap' = remoteSessionMap
            /\ \A j \in 1..Len(pcs) : j # i => pcs'[j] = pcs[j]
            /\ sent' = <<>>]_vars

----------------------------------------------------------------------------
(* The hook left to itself: nobody calls requestStream or stopStream *)

NextAuto ==
    \/ MountEffects
    \/ Commit
    \/ SetSessions
    \/ OnDisconnect
    \/ OnReconnect
    \/ OnReconnectFailed
    \/ OnUserLeft
    \/ OnOfferReceived
    \/ OfferStep
    \/ OnIceCandidate
    \/ OnTrack
    \/ OnConnectionStateChange

SpecAuto ==
    /\ Init
    /\ [][NextAuto]_vars
    /\ WF_vars(MountEffects)
    /\ WF_vars(Commit)

\* C10: whenever a session of the list is active while its StreamState is
\* idle or absent, a proctor_request_stream for it is eventually emitted.
C10_DesiredEventuallyRequested ==
    \A s \in Sessions :
        (/\ allSessions[s] = "active"
         /\ streamStates[s].status \in {"absent", "idle"})
            ~> (RequestsFor(sent, s) # {})

\* C23: when the desired set is reconciled, at the mount and at every render
\* with a changed session list, every session that holds a stream and is
\* not active ends idle with no stream, no PeerLink and no requested
\* marker, and the PeerLink and the stream of an active session are kept.
C23_ReconcileStopsUndesired ==
    [][\A s \in Sessions :
         lastEvent'.name \in {"mount", "render"} =>
            /\ (allSessions'[s] # "active" /\ streamStates[s].stream # 0) =>
                    /\ streamStates'[s].status = "idle"
                    /\ streamStates'[s].stream = 0
                    /\ peersRef'[s] = NoPeer
                    /\ s \notin requestedSessionsRef'
            /\ allSessions'[s] = "active" =>
                    /\ peersRef'[s] = peersRef[s]
                    /\ streamStates'[s].stream = streamStates[s].stream]_vars

\* C27: a call requestStream(s) without force changes nothing and emits
\* nothing when s is waiting, connecting or live, and emits the request and
\* sets s to waiting when s is idle, error or has no StreamState; with
\* force it always emits and sets s to waiting; for a session that is not in
\* the list it changes nothing and emits nothing.
C27_RequestStreamGuard ==
    [][\A s \in Sessions :
         (lastEvent'.name = "requestStream" /\ lastEvent'.a = s) =>
            IF \/ sessionsRef[s] = "absent"
               \/ /\ lastEvent'.b = "noforce"
                  /\ streamStates[s].status \in
                        {"waiting", "connecting", "live"}
            THEN /\ UNCHANGED <<streamStates, peersRef, socketsRef,
                                requestedSessionsRef, pcs>>
                 /\ sent' = <<>>
            ELSE /\ sent' = <<RequestMsg(ExamOf(s), UserOf(s))>>
                 /\ streamStates'[s].status = "waiting"
                 /\ s \in requestedSessionsRef']_vars

\* C28: whenever a session has a PeerLink none of whose tracks has arrived,
\* its StreamState is connecting.
C28_ConnectingWhileNegotiating ==
    \A s \in Sessions :
        (/\ peersRef[s].pc # 0
         /\ streamStates[s].stream # peersRef[s].pc) =>
            streamStates[s].status = "connecting"

\* C29: a StreamState carries a remoteSocketId only while it is connecting
\* or live, and then it is the remote endpoint of the session's PeerLink.
C29_RemoteSocketIdFollowsLink ==
    \A s \in Sessions :
        streamStates[s].remoteSocketId # NoSocket =>
            /\ streamStates[s].status \in {"connecting", "live"}
            /\ peersRef[s].pc # 0
            /\ peersRef[s].remoteSocketId = streamStates[s].remoteSocketId

\* C30: a render with a changed session list creates the StreamState of a
\* listed session that has none as idle with a null stream, no error and no
\* remote endpoint, and leaves every existing StreamState exactly as it
\* was; after the mount every listed session has a StreamState with a null
\* stream, idle unless the session is active and was requested at once.
C30_IdleInitNeverOverwrites ==
    [][\A s \in Sessions :
         /\ lastEvent'.name = "render" =>
                IF streamStates[s].status # "absent"
                THEN streamStates'[s] = streamStates[s]
                ELSE IF allSessions'[s] # "absent"
                THEN streamStates'[s] = [AbsentState EXCEPT !.status = "idle"]
                ELSE streamStates'[s] = AbsentState
         /\ (lastEvent'.name = "mount" /\ allSessions[s] # "absent") =>
                /\ streamStates'[s].stream = 0
                /\ streamStates'[s].status =
                      IF allSessions[s] = "active" THEN "waiting" ELSE "idle"
       ]_vars

\* the list has just changed s1 to terminated while s1 is live: its
\* StreamState still holds the stream
C30_Witness ==
    /\ lastEvent.name = "render"
    /\ listChanges = 1
    /\ allSessions["s1"] = "terminated"
    /\ streamStates["s1"].status = "live"
    /\ streamStates["s1"].stream # 0

\* C31: every PeerLink is reachable through the remote-endpoint map: the
\* map sends the remote endpoint of a session's PeerLink to that session.
C31_LinksReachableThroughMap ==
    \A s \in Sessions :
        peersRef[s].pc # 0 =>
            remoteSessionMap[peersRef[s].remoteSocketId] = s

\* C32: a step creates a PeerLink for a session only if the session has the
\* requested marker, so that a session stopped to idle gets no PeerLink
\* from an offer that arrives before the next requestStream.
C32_LinkOnlyWhileRequested ==
    [][\A s \in Sessions :
         (peersRef'[s].pc # 0 /\ peersRef'[s].pc # peersRef[s].pc) =>
            s \in requestedSessionsRef]_vars

\* C33: in the store, a live session has a stream, and an idle or error
\* session has none.
C33_StatusMatchesStream ==
    \A s \in Sessions :
        /\ streamStates[s].status = "live" => streamStates[s].stream # 0
        /\ streamStates[s].status \in {"idle", "error"} =>
                streamStates[s].stream = 0

\* the StreamState, the PeerLink and the remote-endpoint mappings of
\* session s are the same before and after the step
SessionUntouched(s) ==
    /\ streamStates'[s] = streamStates[s]
    /\ peersRef'[s] = peersRef[s]
    /\ \A r \in Sockets :
            remoteSessionMap[r] = s => remoteSessionMap'[r] = s

\* C36: a disconnect or reconnect_failed on exam E's channel sets every
\* listed session of E to error with the message of the event, whatever its
\* status was, and a user_left for U on E's channel does so for every listed
\* session of (E, U); every other session keeps its StreamState, its
\* PeerLink and its mappings.
C36_RelayEventScope ==
    [][\A e \in Exams :
         /\ (lastEvent'.name \in {"disconnect", "reconnect_failed"}
                /\ lastEvent'.a = e) =>
              \A s \in Sessions :
                IF sessionsRef[s] # "absent" /\ ExamOf(s) = e
                THEN /\ streamStates'[s].status = "error"
                     /\ streamStates'[s].error =
                            IF lastEvent'.name = "disconnect"
                            THEN MsgConnLost ELSE MsgReconnectFailed
                ELSE SessionUntouched(s)
         /\ (lastEvent'.name = "user_left" /\ lastEvent'.a = e) =>
              \A s \in Sessions :
                IF /\ sessionsRef[s] # "absent"
                   /\ ExamOf(s) = e
                   /\ UserOf(s) = lastEvent'.b
                THEN /\ streamStates'[s].status = "error"
                     /\ streamStates'[s].error = MsgUserLeft
                ELSE SessionUntouched(s)]_vars

\* after the step session s holds [status, error], no stream, no remote
\* endpoint and its previous lastUpdated, has no PeerLink, no mapping and no
\* requested marker, and every other session is untouched
StopStreamPost(s, status, error) ==
    /\ streamStates'[s] = [status |-> status, stream |-> 0,
                           lastUpdated |-> streamStates[s].lastUpdated,
                           error |-> error, remoteSocketId |-> NoSocket]
    /\ peersRef'[s] = NoPeer
    /\ \A r \in Sockets : remoteSessionMap'[r] # s
    /\ s \notin requestedSessionsRef'
    /\ \A t \in Sessions \ {s} : SessionUntouched(t)

\* C37: stopStream(s, status, msg), called by the dashboard with 'idle' or
\* by the connection-state observer of s's PeerLink, leaves s with that
\* status and message, no stream, no remoteSocketId and its previous
\* lastUpdated, without PeerLink, mapping or requested marker, and changes
\* nothing of any other session.
C37_StopStreamFrame ==
    [][/\ \A s \in Sessions :
            (lastEvent'.name = "stopStream" /\ lastEvent'.a = s) =>
                StopStreamPost(s, "idle", MsgNone)
       /\ \A i \in 1..Len(pcs) :
            /\ CurrentLinkChanges(i, "failed") =>
                    StopStreamPost(pcs[i].sid, "error", MsgFailed)
            /\ CurrentLinkChanges(i, "disconnected") =>
                    StopStreamPost(pcs[i].sid, "error", MsgInterrupted)
            /\ CurrentLinkChanges(i, "closed") =>
                    StopStreamPost(pcs[i].sid, "idle", MsgNone)]_vars

----------------------------------------------------------------------------
(* Properties of the publisher hook, checked under SpecPub *)

\* C6: every open transport of the publisher is the one registered for its
\* remote endpoint, so that an endpoint never has two open transports.
C6_OneTransportPerEndpoint ==
    \A i \in 1..Len(pubPcs) :
        ~pubPcs[i].closed => peerConnectionsRef[pubPcs[i].target] = i

\* C20: when cameraManager.start() rejects or gives no stream, the call of
\* respondToProctorOfferRequest that awaited it ends there: it creates no
\* transport, registers nothing in peerConnectionsRef and emits no
\* webrtc_offer.
C20_CaptureFailureAborts ==
    [][\A task \in 1..Len(offerTasks) :
         (/\ pubEvent'.name = "settled"
          /\ pubEvent'.a = ToString(task)
          /\ pubEvent'.b = "cameraStart"
          /\ pubEvent'.c \in {"null", "rejected"}) =>
            /\ pubPcs' = pubPcs
            /\ peerConnectionsRef' = peerConnectionsRef
            /\ offerTasks'[task].pc = 0
            /\ pubSent' = <<>>]_vars

\* the only request so far was aborted because the camera gave no stream
C20_Witness ==
    /\ pubEvent.b = "cameraStart"
    /\ pubEvent.c = "null"
    /\ Len(offerTasks) = 1
    /\ offerTasks[1].stage = "done"
    /\ offerTasks[1].pc = 0
    /\ ~cameraStream
    /\ pubPcs = <<>>
    /\ peerConnectionsRef = [r \in Proctors |-> 0]

\* C21: an answer whose sender has no PeerLink changes nothing, and an
\* answer for a PeerLink whose remote description is set, or is being set by
\* a setRemoteDescription that has not settled yet, starts no further
\* setRemoteDescription: the remote description of a PeerLink is set at
\* most once.
C21_AnswerSetAtMostOnce ==
    [][\A r \in Proctors :
         (pubEvent'.name = "webrtc_answer_received" /\ pubEvent'.a = r) =>
            IF peerConnectionsRef[r] = 0
            THEN /\ UNCHANGED <<pubPcs, peerConnectionsRef, offerTasks>>
                 /\ pubSent' = <<>>
            ELSE (\/ pubPcs[peerConnectionsRef[r]].remoteDescription
                  \/ pubPcs[peerConnectionsRef[r]].pendingSets > 0) =>
                    pubPcs' = pubPcs]_vars

\* C22: the continuation of a call of respondToProctorOfferRequest whose
\* PeerLink was torn down while it was suspended is a no-op.  When its
\* transport is closed and createOffer or setLocalDescription settles, and
\* when the socket has disconnected and cameraManager.start() settles, the
\* step registers no transport, closes no transport and emits no offer.
C22_PublisherContinuationIsNoOp ==
    [][\A task \in 1..Len(offerTasks) :
         (/\ pubEvent'.name = "settled"
          /\ pubEvent'.a = ToString(task)
          /\ \/ /\ pubEvent'.b \in {"createOffer", "setLocalDescription"}
                /\ offerTasks[task].pc # 0
                /\ pubPcs[offerTasks[task].pc].closed
             \/ /\ pubEvent'.b = "cameraStart"
                /\ ~pubConnected) =>
            /\ pubPcs' = pubPcs
            /\ peerConnectionsRef' = peerConnectionsRef
            /\ pubSent' = <<>>]_vars

\* C24: whenever monitoring is active or a PeerLink of the publisher
\* carries the local tracks, the hook holds a usage reference on the capture
\* device.
C24_CaptureHeldWhileUsed ==
    (\/ isActiveRef
     \/ \E r \in Proctors : peerConnectionsRef[r] # 0) => cameraUsageRef

\* C34: from a relay disconnect until the socket is connected again, a
\* time in which no webrtc_offer_request is handled, the publisher holds no
\* peer connection: the registry is empty and every transport it created
\* is closed.
C34_NoPeerWhileDisconnected ==
    ~pubConnected =>
        /\ \A r \in Proctors : peerConnectionsRef[r] = 0
        /\ \A i \in 1..Len(pubPcs) : pubPcs[i].closed

\* C35: stopMonitoring leaves monitoring stopped, with the active flag
\* false and no usage reference held, and the step that follows it leaves it
\* stopped too unless that step is a call of startMonitoring.
C35_StoppedStaysStopped ==
    [][/\ pubEvent'.name = "stopMonitoring" =>
            (~isActiveRef' /\ ~cameraUsageRef')
       /\ (pubEvent.name = "stopMonitoring"
              /\ pubEvent'.name # "startMonitoring") =>
            (~isActiveRef' /\ ~cameraUsageRef')]_vars

\* C25: a webrtc_offer_request that names no proctor endpoint, or whose
\* studentIdToView names another participant, changes nothing: no call of
\* respondToProctorOfferRequest, no transport, no registry entry, no offer;
\* a request is answered only if it names an endpoint and its filter is
\* absent or this participant's id.
C25_OfferRequestFilter ==
    [][pubEvent'.name = "webrtc_offer_request" =>
         /\ (pubEvent'.a = "none" \/ pubEvent'.b = "other") =>
                /\ offerTasks' = offerTasks
                /\ pubPcs' = pubPcs
                /\ peerConnectionsRef' = peerConnectionsRef
                /\ pubSent' = <<>>
         /\ Len(offerTasks') > Len(offerTasks) =>
                /\ pubEvent'.a \in Proctors
                /\ pubEvent'.b \in {"none", "me"}
                /\ offerTasks'[Len(offerTasks')].target = pubEvent'.a]_vars

\* a connected publisher with the camera running has just ignored a request
\* of proctor p1 for another participant
C25_Witness ==
    /\ pubEvent.name = "webrtc_offer_request"
    /\ pubEvent.a = "p1"
    /\ pubEvent.b = "other"
    /\ pubConnected
    /\ cameraStream
    /\ offerTasks = <<>>
    /\ pubPcs = <<>>

\* C26: a connection-state change to failed, disconnected or closed on the
\* transport registered for its endpoint R detaches its observers, closes it
\* and deletes R's registry entry in that step; a change to connected leaves
\* the registry, the transports, the calls and the camera as they were and
\* emits nothing.
C26_PublisherConnectionState ==
    [][\A pc \in 1..Len(pubPcs) :
         (/\ pubEvent'.name = "connectionstatechange"
          /\ pubEvent'.a = ToString(pc)
          /\ peerConnectionsRef[pubPcs[pc].target] = pc) =>
            IF pubEvent'.b = "connected"
            THEN /\ UNCHANGED <<pubConnected, peerConnectionsRef, pubPcs,
                                offerTasks, cameraStream, isActiveRef,
                                cameraUsageRef, monitorCalls>>
                 /\ pubSent' = <<>>
            ELSE /\ peerConnectionsRef'[pubPcs[pc].target] = 0
                 /\ pubPcs'[pc].closed
                 /\ ~pubPcs'[pc].observed
                 /\ \A r \in Proctors \ {pubPcs[pc].target} :
                        peerConnectionsRef'[r] = peerConnectionsRef[r]]_vars

\* the registered transport of p1 reported disconnected and was removed
C26_Witness ==
    /\ pubEvent.name = "connectionstatechange"
    /\ pubEvent.a = "1"
    /\ pubEvent.b = "disconnected"
    /\ Len(pubPcs) = 1
    /\ pubPcs[1].target = "p1"
    /\ pubPcs[1].closed
    /\ peerConnectionsRef["p1"] = 0

----------------------------------------------------------------------------
(* Properties of the dashboard hook, checked under SpecDash *)

\* the ids of the violations recorded for a session
ViolationIdsOf(session) ==
    {session.violations[j].id : j \in 1..Len(session.violations)}

ExpectedRiskLevel(violations) ==
    LET unresolved == {j \in 1..Len(violations) : ~violations[j].resolved}
    IN  IF \/ \E j \in unresolved : violations[j].severity = "critical"
           \/ Cardinality(unresolved) >= 5
        THEN "critical"
        ELSE IF Cardinality(unresolved) >= 3
        THEN "high"
        ELSE IF Cardinality(unresolved) >= 1
        THEN "medium"
        ELSE "low"

\* C39: after a proctoring_alert or a call of resolveViolation that changed
\* the violations of an active session, the riskLevel of that session is the
\* level of its unresolved violations.
C39_RiskLevelFollowsViolations ==
    [][dashEvent'.name \in {"proctoring_alert", "resolveViolation"} =>
        \A i \in 1..Len(sessions') :
            \A k \in 1..Len(sessions) :
                (/\ sessions'[i].id = sessions[k].id
                 /\ sessions'[i].status = "active"
                 /\ sessions'[i].violations # sessions[k].violations) =>
                    sessions'[i].riskLevel =
                        ExpectedRiskLevel(sessions'[i].violations)]_vars

\* the alert half of C39: a new alert leaves the level of its session right
AlertSetsRiskLevel ==
    [][dashEvent'.name = "proctoring_alert" =>
        \A i \in 1..Len(sessions') :
            \A k \in 1..Len(sessions) :
                (/\ sessions'[i].id = sessions[k].id
                 /\ sessions'[i].violations # sessions[k].violations) =>
                    sessions'[i].riskLevel =
                        ExpectedRiskLevel(sessions'[i].violations)]_vars

====
